---------------------------- MODULE Spec2Model ----------------------------
(***************************************************************************)
(* Calendar task board (React + useReducer store).                         *)
(*                                                                         *)
(* The store (calendarReducer), the create-by-drag-select, move and resize *)
(* gestures, the task form and the filter panel, as state machines.        *)
(*                                                                         *)
(* Time.  A Date is an integer number of ticks since the epoch (UTC); one  *)
(* day is TicksPerDay ticks.  The browser's time zone is tz ticks ahead of *)
(* UTC, one tick less before the day dst on which its clocks go forward.   *)
(* Day cells of the grid are local midnights; a date-only string           *)
(* "yyyy-mm-dd" (the value of an <input type="date">) is parsed by         *)
(* new Date(...) as UTC midnight, and toISOString() prints the UTC day.    *)
(*                                                                         *)
(* Nullable values (Date | null, Partial<Task> | null, '' for an empty     *)
(* input) are sequences of length at most one: <<>> is null, <<x>> is x.   *)
(* Strings that the program inspects (names, search text) are sequences of *)
(* one-character strings.                                                  *)
(***************************************************************************)
EXTENDS Integers, Sequences, FiniteSets, TLC

VARIABLES
    tz,             \* time zone offset of the browser, in ticks (local = UTC + tz)
    dst,            \* the day on which the zone's clocks have gone forward one tick,
                    \* if the zone has daylight saving time
    clock,          \* Date.now(): strictly increasing between two task creations
    today,          \* new Date() as seen by the filter's rolling window
    tasks,          \* CalendarState.tasks
    filters,        \* CalendarState.filters
    modal,          \* CalendarState.modal
    dragSelection,  \* CalendarState.dragSelection
    currentMonth,   \* CalendarState.currentMonth: the date whose month the grid shows
    localStorage,   \* the item 'calendar-state' of the browser's localStorage
    timeoutId,      \* the pending timeout of the save effect and the state it saves
    phase,          \* the page: closed, between the mount effects and the render
                    \* of what they dispatched, mounted, or crashed in a render
    loadQueue,      \* the actions the load effect dispatched, not yet reduced
    gridDragging,   \* CalendarGrid: useState isDragging
    cellDragging,   \* CalendarDay: the cell whose useState isDragging is true
    upClosure,      \* dragSelection as captured by the registered mouseup listener
    pointerCell,    \* the day cell last entered by the pointer while a button is held
    formData,       \* TaskModal: useState formData
    resize,         \* TaskBar: resize state of the bar of cell `day`, the closure of its
                    \* document listeners and the day cell the pointer was over
                    \* at its last mousemove
    dnd,            \* @dnd-kit: the pressed / dragged task bar
    dispatched      \* the reducer actions dispatched by the last handler, in order

persistVars == <<localStorage, timeoutId, phase, loadQueue>>

vars == <<tz, dst, persistVars, clock, today, tasks, filters, modal, dragSelection,
          currentMonth, gridDragging, cellDragging, upClosure, pointerCell, formData,
          resize, dnd, dispatched>>

---------------------------------------------------------------------------
(* Bounds of the model *)

MaxDay == 2
MaxCreated == 1
MaxListLen == 3
MaxId == 2
MaxFiltered == 2
MaxToday == 2

(* 1000 * 60 * 60 * 24 ms, scaled: one tick is half a day *)
TicksPerDay == 2

TimeZones == {-1, 0, 1}
Days == 1..MaxDay
LastDay == MaxDay + 1

None == <<>>
Some(x) == <<x>>
IsSome(m) == m # <<>>
Get(m) == m[1]

Categories == {"todo", "in-progress", "review", "completed"}

---------------------------------------------------------------------------
(* Dates: the JavaScript Date and date-fns operations the program calls *)

Sign(n) == IF n > 0 THEN 1 ELSE IF n < 0 THEN -1 ELSE 0
Abs(n) == IF n < 0 THEN -n ELSE n

\* The zone's daylight saving time: none, or the clocks go forward one tick at
\* the start of the fourth day of the week row before day 1 (the day before it
\* is one tick short).  Every date the program stores is after that day.
DstDays == {None, Some(-3)}

\* Date.getTimezoneOffset, negated: the zone's offset at the instant
LocalOffset(t) ==
    IF IsSome(dst) /\ t < Get(dst) * TicksPerDay - tz THEN tz - 1 ELSE tz

\* getFullYear / getMonth / getDate: the local calendar day of an instant
LocalDay(t) == (t + LocalOffset(t)) \div TicksPerDay

\* new Date(y, m, d): the local midnight of a calendar day; eachDayOfInterval
\* yields these as the dates of the day cells
CellDate(d) ==
    IF IsSome(dst) /\ d < Get(dst) THEN d * TicksPerDay - (tz - 1)
    ELSE d * TicksPerDay - tz

\* date-fns startOfDay
startOfDay(t) == CellDate(LocalDay(t))

\* date-fns endOfDay: the last instant of the local day
endOfDay(t) == CellDate(LocalDay(t) + 1) - 1

\* date-fns addDays: the same local time of day, n calendar days later
addDays(t, n) == CellDate(LocalDay(t) + n) + (t - startOfDay(t))

\* date-fns addWeeks
addWeeks(t, n) == addDays(t, 7 * n)

\* date-fns differenceInDays: full days between two instants, truncated
differenceInDays(dateLeft, dateRight) ==
    LET sign == Sign(dateLeft - dateRight)
        difference == Abs(LocalDay(dateLeft) - LocalDay(dateRight))
        shifted == addDays(dateLeft, -(sign * difference))
        isLastDayNotFull == IF Sign(shifted - dateRight) = -sign THEN 1 ELSE 0
    IN  sign * (difference - isLastDayNotFull)

\* new Date("yyyy-mm-dd"): a date-only string is UTC midnight
ParseDateString(d) == d * TicksPerDay

\* date.toISOString().split('T')[0]: the UTC calendar day
ToDateString(t) == t \div TicksPerDay

---------------------------------------------------------------------------
(* Strings *)

Lower(c) == IF c = "A" THEN "a" ELSE IF c = "B" THEN "b" ELSE c

toLowerCase(s) == [i \in 1..Len(s) |-> Lower(s[i])]

RECURSIVE trimStart(_)
trimStart(s) == IF s # <<>> /\ Head(s) = " " THEN trimStart(Tail(s)) ELSE s

RECURSIVE trimEnd(_)
trimEnd(s) ==
    IF s # <<>> /\ s[Len(s)] = " " THEN trimEnd(SubSeq(s, 1, Len(s) - 1)) ELSE s

trim(s) == trimEnd(trimStart(s))

\* String.prototype.includes
includes(s, q) ==
    \E i \in 0..(Len(s) - Len(q)) : SubSeq(s, i + 1, i + Len(q)) = q

---------------------------------------------------------------------------
(* The store: calendarReducer *)

\* { ...base, ...payload }
Merge(base, payload) ==
    [f \in DOMAIN base \cup DOMAIN payload |->
        IF f \in DOMAIN payload THEN payload[f] ELSE base[f]]

\* Array.prototype.map / filter over the task list
RECURSIVE MapTasks(_, _)
MapTasks(ts, payload) ==
    IF ts = <<>> THEN <<>>
    ELSE <<IF Head(ts).id = payload.id THEN payload ELSE Head(ts)>>
         \o MapTasks(Tail(ts), payload)

RECURSIVE RemoveId(_, _)
RemoveId(ts, id) ==
    IF ts = <<>> THEN <<>>
    ELSE (IF Head(ts).id # id THEN <<Head(ts)>> ELSE <<>>) \o RemoveId(Tail(ts), id)

initialFilters == [categories |-> <<>>, duration |-> None, searchQuery |-> <<>>]
initialModal == [isOpen |-> FALSE, task |-> None, mode |-> "create"]
initialDragSelection == [startDate |-> None, endDate |-> None, isSelecting |-> FALSE]

\* new Date() at the load of the module, in the calendar fields the month view
\* reads: getMonth() and getDate()
initialMonth == [month |-> 10, date |-> 5]

initialState ==
    [tasks |-> <<>>, filters |-> initialFilters, modal |-> initialModal,
     dragSelection |-> initialDragSelection, currentMonth |-> initialMonth]

ReduceAddTask(state, payload) ==
    [state EXCEPT !.tasks = Append(state.tasks, payload)]

\* an update that inserts the record when no task has its id (an "upsert")
ReduceUpsertTask(state, payload) ==
    [state EXCEPT !.tasks =
        IF \E i \in 1..Len(state.tasks) : state.tasks[i].id = payload.id
        THEN MapTasks(state.tasks, payload)
        ELSE Append(state.tasks, payload)]

\* a delete that also drops the modal's task
ReduceDeleteAndClose(state, payload) ==
    [state EXCEPT !.tasks = RemoveId(state.tasks, payload),
                  !.modal = initialModal]

ReduceUpdateTask(state, payload) ==
    [state EXCEPT !.tasks = MapTasks(state.tasks, payload)]

ReduceDeleteTask(state, payload) ==
    [state EXCEPT !.tasks = RemoveId(state.tasks, payload)]

calendarReducer(state, action) ==
    CASE action.type = "ADD_TASK" -> ReduceAddTask(state, action.payload)
      [] action.type = "UPDATE_TASK" -> ReduceUpdateTask(state, action.payload)
      [] action.type = "DELETE_TASK" -> ReduceDeleteTask(state, action.payload)
      [] action.type = "SET_FILTERS" ->
            [state EXCEPT !.filters = Merge(state.filters, action.payload)]
      [] action.type = "SET_MODAL" ->
            [state EXCEPT !.modal = Merge(state.modal, action.payload)]
      [] action.type = "SET_DRAG_SELECTION" ->
            [state EXCEPT !.dragSelection = Merge(state.dragSelection, action.payload)]
      [] action.type = "SET_CURRENT_MONTH" ->
            [state EXCEPT !.currentMonth = action.payload]
      [] action.type = "LOAD_STATE" -> action.payload
      [] OTHER -> state

RECURSIVE ReduceAll(_, _)
ReduceAll(state, actions) ==
    IF actions = <<>> THEN state
    ELSE ReduceAll(calendarReducer(state, Head(actions)), Tail(actions))

CalendarState ==
    [tasks |-> tasks, filters |-> filters, modal |-> modal,
     dragSelection |-> dragSelection, currentMonth |-> currentMonth]

---------------------------------------------------------------------------
(* dateUtils / taskUtils *)

normalizeDateRange(startDate, endDate) ==
    LET start == startOfDay(startDate)
        end == endOfDay(endDate)
    IN  IF start <= end THEN [start |-> start, end |-> end]
        ELSE [start |-> end, end |-> start]

isDateInRange(date, startDate, endDate) ==
    LET r == normalizeDateRange(startDate, endDate)
    IN  date >= r.start /\ date <= r.end

getWeeksFromToday(weeks) == [start |-> today, end |-> addWeeks(today, weeks)]

SeqContains(s, x) == \E i \in 1..Len(s) : s[i] = x

\* a predicate without the "categories.length > 0" guard: no category selected
\* would exclude every task
FilterPassNoGuard(task, f) ==
    /\ SeqContains(f.categories, task.category)
    /\ IsSome(f.duration) =>
          LET w == getWeeksFromToday(Get(f.duration))
          IN  ~(task.endDate < w.start \/ task.startDate > w.end)
    /\ ~(f.searchQuery # <<>>
         /\ ~includes(toLowerCase(task.name), toLowerCase(f.searchQuery)))

\* a predicate that compares the name and the search text as typed
FilterPassCaseSensitive(task, f) ==
    /\ ~(Len(f.categories) > 0 /\ ~SeqContains(f.categories, task.category))
    /\ IsSome(f.duration) =>
          LET w == getWeeksFromToday(Get(f.duration))
          IN  ~(task.endDate < w.start \/ task.startDate > w.end)
    /\ ~(f.searchQuery # <<>> /\ ~includes(task.name, f.searchQuery))

\* the predicate of filterTasks' tasks.filter(...)
FilterPass(task, f) ==
    /\ ~(Len(f.categories) > 0 /\ ~SeqContains(f.categories, task.category))
    /\ IsSome(f.duration) =>
          LET w == getWeeksFromToday(Get(f.duration))
          IN  ~(task.endDate < w.start \/ task.startDate > w.end)
    /\ ~(f.searchQuery # <<>>
         /\ ~includes(toLowerCase(task.name), toLowerCase(f.searchQuery)))

\* a filter that loses the first task that passes
filterTasksSkipFirst(ts, f) ==
    LET Pass(t) == FilterPass(t, f)
        r == SelectSeq(ts, Pass)
    IN  IF r = <<>> THEN r ELSE Tail(r)

\* a filter that returns the passing tasks last first
filterTasksReversed(ts, f) ==
    LET Pass(t) == FilterPass(t, f)
        r == SelectSeq(ts, Pass)
    IN  [i \in 1..Len(r) |-> r[Len(r) + 1 - i]]

RECURSIVE filterTasks(_, _)
filterTasks(ts, f) ==
    IF ts = <<>> THEN <<>>
    ELSE (IF FilterPass(Head(ts), f) THEN <<Head(ts)>> ELSE <<>>)
         \o filterTasks(Tail(ts), f)

RECURSIVE getTasksForDay(_, _)
getTasksForDay(ts, date) ==
    IF ts = <<>> THEN <<>>
    ELSE (IF isDateInRange(date, Head(ts).startDate, Head(ts).endDate)
          THEN <<Head(ts)>> ELSE <<>>)
         \o getTasksForDay(Tail(ts), date)

---------------------------------------------------------------------------
(* CalendarDay: which task bars a day cell renders.  The pointer works on  *)
(* the cells of Days, in the week row that starts on day 1, the second row *)
(* of the grid; a week row is the seven cells from a day 7k + 1 on.        *)

\* date-fns startOfWeek: the first day of the week row of the date
startOfWeek(t) == CellDate(7 * ((LocalDay(t) - 1) \div 7) + 1)

weekStartDate(dayDate) == startOfWeek(dayDate)

\* an isFirstDay that is true on every day of the task
getTaskForDayEveryDay(task, dayDate) ==
    LET dayStart == startOfDay(dayDate)
    IN  dayStart >= startOfDay(task.startDate) /\ dayStart <= startOfDay(task.endDate)

\* CalendarDay.getTaskForDay(task, dayDate).isFirstDay
getTaskForDay(task, dayDate) ==
    LET dayStart == startOfDay(dayDate)
        taskStart == startOfDay(task.startDate)
        taskEnd == startOfDay(task.endDate)
        weekStart == startOfDay(weekStartDate(dayDate))
        firstDayInWeek == IF taskStart >= weekStart THEN taskStart ELSE weekStart
    IN  IF ~(dayStart >= taskStart /\ dayStart <= taskEnd) THEN FALSE
        ELSE dayStart = firstDayInWeek

\* cell d renders a TaskBar for task
BarAt(task, d) ==
    /\ SeqContains(getTasksForDay(filterTasks(tasks, filters), CellDate(d)), task)
    /\ getTaskForDay(task, CellDate(d))

\* Percentages are counted in units of 1/700 percent: (n / 7) * 100 is n * Seventh
\* units, the whole row 7 * Seventh, 14.28 is MinWidth and 85.72 is MaxLeft.
Seventh == 10000
MinWidth == 9996
MaxLeft == 60004

\* metrics whose width leaves out the last visible day
getTaskMetricsExclusive(task, tempStartDate, tempEndDate, weekStart0) ==
    LET taskStartDate == startOfDay(IF IsSome(tempStartDate) THEN Get(tempStartDate)
                                    ELSE task.startDate)
        taskEndDate == startOfDay(IF IsSome(tempEndDate) THEN Get(tempEndDate)
                                  ELSE task.endDate)
        weekStart == startOfDay(weekStart0)
        weekEnd == startOfDay(addDays(weekStart0, 6))
        visibleStart == IF taskStartDate < weekStart THEN weekStart ELSE taskStartDate
        visibleEnd == IF taskEndDate > weekEnd THEN weekEnd ELSE taskEndDate
        startDayIndex == (visibleStart - weekStart) \div TicksPerDay
        endDayIndex == (visibleEnd - weekStart) \div TicksPerDay
    IN  [width |-> (endDayIndex - startDayIndex) * Seventh,
         left |-> startDayIndex * Seventh]

\* TaskBar.getTaskMetrics of a rendered bar (isFirstDay): width and left of the
\* bar in the week row that starts at weekStart0, with the temp dates of a resize
getTaskMetrics(task, tempStartDate, tempEndDate, weekStart0) ==
    LET displayStartDate == IF IsSome(tempStartDate) THEN Get(tempStartDate)
                            ELSE task.startDate
        displayEndDate == IF IsSome(tempEndDate) THEN Get(tempEndDate)
                          ELSE task.endDate
        taskStartDate == startOfDay(displayStartDate)
        taskEndDate == startOfDay(displayEndDate)
        weekStart == startOfDay(weekStart0)
        weekEnd == startOfDay(addDays(weekStart0, 6))
        visibleStart == IF taskStartDate < weekStart THEN weekStart ELSE taskStartDate
        visibleEnd == IF taskEndDate > weekEnd THEN weekEnd ELSE taskEndDate
        startDayIndex == (visibleStart - weekStart) \div TicksPerDay
        endDayIndex == (visibleEnd - weekStart) \div TicksPerDay
        left == startDayIndex * Seventh
        width == (endDayIndex - startDayIndex + 1) * Seventh
        minLeft == IF left < MaxLeft THEN left ELSE MaxLeft
    IN  [width |-> IF width > MinWidth THEN width ELSE MinWidth,
         left |-> IF minLeft > 0 THEN minLeft ELSE 0]

\* taskUtils.getTaskDisplayInfo: null, or the width and left of the task in the
\* week row
getTaskDisplayInfo(task, dayDate, weekStart0) ==
    LET taskStart == startOfDay(task.startDate)
        taskEnd == startOfDay(task.endDate)
        currentDay == startOfDay(dayDate)
        weekStart == startOfDay(weekStart0)
        isInTask == currentDay >= taskStart /\ currentDay <= taskEnd
        startIndex == (taskStart - weekStart) \div TicksPerDay
        endIndex == (taskEnd - weekStart) \div TicksPerDay
        taskStartDayOfWeek == IF startIndex > 0 THEN startIndex ELSE 0
        taskEndDayOfWeek == IF endIndex < 6 THEN endIndex ELSE 6
    IN  IF ~isInTask THEN None
        ELSE Some([width |-> (taskEndDayOfWeek - taskStartDayOfWeek + 1) * Seventh,
                   left |-> taskStartDayOfWeek * Seventh])

---------------------------------------------------------------------------
(* Dispatch: the handler's reducer actions, applied in order *)

Dispatch(actions) ==
    LET s == ReduceAll(CalendarState, actions)
    IN  /\ tasks' = s.tasks
        /\ filters' = s.filters
        /\ modal' = s.modal
        /\ dragSelection' = s.dragSelection
        /\ currentMonth' = s.currentMonth
        /\ dispatched' = actions

\* TaskModal's useEffect on [task]: the form is refilled from the modal's task
FormOf(mt) ==
    IF IsSome(mt)
    THEN LET t == Get(mt)
         IN  [name |-> IF "name" \in DOMAIN t THEN t.name ELSE <<>>,
              category |-> IF "category" \in DOMAIN t THEN t.category ELSE "todo",
              startDate |-> IF "startDate" \in DOMAIN t
                            THEN Some(ToDateString(t.startDate)) ELSE None,
              endDate |-> IF "endDate" \in DOMAIN t
                          THEN Some(ToDateString(t.endDate)) ELSE None]
    ELSE [name |-> <<>>, category |-> "todo", startDate |-> None, endDate |-> None]

\* a SET_MODAL that carries a task installs it, and the effect refills the form.
\* (When the very same task object is installed again the effect does not run and
\* the form keeps what was typed for that task; the refilled form reaches the
\* same contents through the inputs' onChange.)  The form is not read while the
\* modal is closed: the model forgets its contents then.
FormEffect(actions) ==
    formData' = IF ~modal'.isOpen THEN FormOf(None)
                 ELSE IF \E i \in 1..Len(actions) :
                        /\ actions[i].type = "SET_MODAL"
                        /\ "task" \in DOMAIN actions[i].payload
                 THEN FormOf(modal'.task) ELSE formData

initialResize ==
    [isResizing |-> FALSE, resizeMode |-> None, tempStartDate |-> None,
     tempEndDate |-> None, task |-> None, closure |-> None, over |-> None,
     day |-> None]

PointerIdle == cellDragging = None /\ ~resize.isResizing /\ dnd = None

\* the modal's backdrop (fixed inset-0, z-50) covers the page while it is open
PageReachable == ~modal.isOpen

---------------------------------------------------------------------------
(* CalendarDay / CalendarGrid: create-by-drag-select *)

\* handleMouseDown -> handleDragStart; the effect then registers the mouseup
\* listener, whose handleDragEnd closes over this render's dragSelection
MouseDownEffects(d) ==
    /\ cellDragging' = Some(d)
    /\ gridDragging' = TRUE
    /\ Dispatch(<<[type |-> "SET_DRAG_SELECTION",
                   payload |-> [startDate |-> Some(CellDate(d)),
                                endDate |-> Some(CellDate(d)),
                                isSelecting |-> TRUE]]>>)
    /\ upClosure' = dragSelection'
    /\ pointerCell' = Some(d)

CellMouseDown(d) ==
    /\ PageReachable /\ PointerIdle
    /\ MouseDownEffects(d)
    /\ UNCHANGED <<tz, dst, persistVars,
                   clock, today, formData, resize, dnd>>

\* handleMouseEnter of cell d -> handleDragOver, while a button is held
CellMouseEnter(d) ==
    /\ cellDragging # None
    /\ pointerCell' = Some(d)
    /\ IF cellDragging = Some(d) /\ gridDragging /\ IsSome(dragSelection.startDate)
       THEN Dispatch(<<[type |-> "SET_DRAG_SELECTION",
                        payload |-> [endDate |-> Some(CellDate(d))]]>>)
       ELSE /\ dispatched' = <<>>
            /\ UNCHANGED <<tasks, filters, modal, dragSelection, currentMonth>>
    /\ dnd' = IF dnd # None THEN Some([Get(dnd) EXCEPT !.moved = TRUE]) ELSE dnd
    /\ UNCHANGED <<tz, dst, persistVars,
                   clock, today, gridDragging, cellDragging, upClosure,
                   formData, resize>>

\* a handleDragEnd that resets the selection only when it opened no modal
DragEndActionsNoReset ==
    IF IsSome(upClosure.startDate) /\ IsSome(upClosure.endDate)
    THEN <<[type |-> "SET_MODAL",
            payload |-> [isOpen |-> TRUE,
                         task |-> Some([startDate |-> startOfDay(Get(upClosure.startDate)),
                                        endDate |-> startOfDay(Get(upClosure.endDate))]),
                         mode |-> "create"]]>>
    ELSE <<[type |-> "SET_DRAG_SELECTION",
            payload |-> [startDate |-> None, endDate |-> None,
                         isSelecting |-> FALSE]]>>

\* CalendarGrid.handleDragEnd, as closed over by the mouseup listener
DragEndActions ==
    (IF IsSome(upClosure.startDate) /\ IsSome(upClosure.endDate)
     THEN LET s == Get(upClosure.startDate)
              e == Get(upClosure.endDate)
              lo == IF s > e THEN e ELSE s
              hi == IF s > e THEN s ELSE e
          IN  <<[type |-> "SET_MODAL",
                 payload |-> [isOpen |-> TRUE,
                              task |-> Some([startDate |-> startOfDay(lo),
                                             endDate |-> startOfDay(hi)]),
                              mode |-> "create"]]>>
     ELSE <<>>)
    \o <<[type |-> "SET_DRAG_SELECTION",
          payload |-> [startDate |-> None, endDate |-> None,
                       isSelecting |-> FALSE]]>>

\* handleMouseUp -> handleDragEnd, then whatever else the release dispatches; the
\* listener is removed and its closure dropped
MouseUpEffects(more) ==
    /\ cellDragging' = None
    /\ gridDragging' = FALSE
    /\ pointerCell' = None
    /\ Dispatch(DragEndActions \o more)
    /\ FormEffect(DragEndActions \o more)
    /\ upClosure' = initialDragSelection

CellMouseUp ==
    /\ cellDragging # None /\ dnd = None
    /\ MouseUpEffects(<<>>)
    /\ UNCHANGED <<tz, dst, persistVars,
                   clock, today, resize, dnd>>

---------------------------------------------------------------------------
(* TaskBar body: click to edit, drag to move (@dnd-kit) *)

\* pointerdown on the body of the bar that cell d renders for tasks[i]: the
\* draggable is pressed, and the mousedown bubbles to the cell's handleMouseDown
TaskPointerDown(i, d) ==
    /\ PageReachable /\ PointerIdle
    /\ BarAt(tasks[i], d)
    /\ dnd' = Some([task |-> tasks[i], moved |-> FALSE])
    /\ MouseDownEffects(d)
    /\ UNCHANGED <<tz, dst, persistVars,
                   clock, today, formData, resize>>

\* pointermove inside a cell: the drag is activated
TaskPointerMove ==
    /\ dnd # None /\ ~Get(dnd).moved
    /\ dnd' = Some([Get(dnd) EXCEPT !.moved = TRUE])
    /\ dispatched' = <<>>
    /\ UNCHANGED <<tz, dst, persistVars,
                   clock, today, tasks, filters, modal, dragSelection,
                   currentMonth,
                   gridDragging, cellDragging, upClosure, pointerCell, formData,
                   resize>>

\* CalendarGrid.handleDndDragEnd: the task dropped over day cell `over`
MovedTask(task, newStartDate) ==
    LET duration == differenceInDays(task.endDate, task.startDate)
    IN  [task EXCEPT !.startDate = startOfDay(newStartDate),
                     !.endDate = startOfDay(addDays(newStartDate, duration))]

\* dates are unbounded in the program; the model stops a move whose result
\* would leave the days 0..LastDay
InHorizon(task) ==
    /\ LocalDay(task.startDate) \in 0..LastDay
    /\ LocalDay(task.endDate) \in 0..LastDay

DndDragEndActions(task, over) ==
    IF IsSome(over)
    THEN <<[type |-> "UPDATE_TASK", payload |-> MovedTask(task, CellDate(Get(over)))]>>
    ELSE <<>>

\* release after a drag: handleDndDragEnd (pointerup), then the cell's mouseup
\* listener; the click is swallowed by the sensor
TaskDrop(over) ==
    /\ dnd # None /\ Get(dnd).moved
    /\ \A i \in 1..Len(DndDragEndActions(Get(dnd).task, over)) :
          InHorizon(DndDragEndActions(Get(dnd).task, over)[i].payload)
    /\ dnd' = None
    /\ cellDragging' = None
    /\ gridDragging' = FALSE
    /\ pointerCell' = None
    /\ Dispatch(DndDragEndActions(Get(dnd).task, over) \o DragEndActions)
    /\ FormEffect(DragEndActions)
    /\ upClosure' = initialDragSelection
    /\ UNCHANGED <<tz, dst, persistVars,
                   clock, today, resize>>

\* TaskBar.handleClick
ClickActions(task) ==
    <<[type |-> "SET_MODAL",
       payload |-> [isOpen |-> TRUE, task |-> Some(task), mode |-> "edit"]]>>

\* release without a drag: the cell's mouseup listener, then the bar's click
TaskClick ==
    /\ dnd # None /\ ~Get(dnd).moved
    /\ dnd' = None
    /\ MouseUpEffects(ClickActions(Get(dnd).task))
    /\ UNCHANGED <<tz, dst, persistVars,
                   clock, today, resize>>

---------------------------------------------------------------------------
(* TaskBar resize handles *)

\* the cells whose bars have their resize handles pressed, and the cells the
\* pointer is over during a resize: those of Days and the last cell of the week
\* row before
BarDays == 0..MaxDay

\* document.querySelectorAll('.calendar-day'): the day cells in document order,
\* the week row before that of Days first, each row from its first day
dayElements == [i \in 1..14 |-> (1 - 7) + (i - 1)]

\* the horizontal extent of a cell (rect.left .. rect.right): its column
Column(d) == (d - 1) % 7

\* handleResizeMove's search for the cell under the pointer: the first element,
\* in document order, whose horizontal extent holds clientX; its data-date
ResizeTarget(d) ==
    LET hits == {i \in DOMAIN dayElements : Column(dayElements[i]) = Column(d)}
        first == CHOOSE i \in hits : \A j \in hits : i <= j
    IN  CellDate(dayElements[first])

\* handleResizeStart (stopPropagation: the cell does not see the mousedown); the
\* effect on [isResizing] then registers the document listeners, which close over
\* this render's task and temp dates
ResizeStart(i, d, edge) ==
    /\ PageReachable /\ PointerIdle
    /\ BarAt(tasks[i], d)
    /\ resize' = [isResizing |-> TRUE,
                  resizeMode |-> Some(edge),
                  tempStartDate |-> Some(tasks[i].startDate),
                  tempEndDate |-> Some(tasks[i].endDate),
                  task |-> Some(tasks[i]),
                  closure |-> Some([tempStartDate |-> Some(tasks[i].startDate),
                                    tempEndDate |-> Some(tasks[i].endDate)]),
                  over |-> None,
                  day |-> Some(d)]
    /\ dispatched' = <<>>
    /\ UNCHANGED <<tz, dst, persistVars,
                   clock, today, tasks, filters, modal, dragSelection,
                   currentMonth,
                   gridDragging, cellDragging, upClosure, pointerCell, formData, dnd>>

\* a candidate that slides the whole range to the target instead of one edge
ResizeCandidateSlide(task, resizeMode, targetDate) ==
    IF resizeMode = "start"
    THEN [startDate |-> startOfDay(targetDate),
          endDate |-> addDays(startOfDay(targetDate), 1)]
    ELSE [startDate |-> addDays(startOfDay(targetDate), -1),
          endDate |-> startOfDay(targetDate)]

\* handleResizeMove: the candidate range for the target date
ResizeCandidate(task, resizeMode, targetDate) ==
    IF resizeMode = "start"
    THEN LET newStartDate == startOfDay(targetDate)
             newEndDate == task.endDate
         IN  [startDate |-> IF newStartDate >= newEndDate
                            THEN addDays(newEndDate, -1) ELSE newStartDate,
              endDate |-> newEndDate]
    ELSE LET newStartDate == task.startDate
             newEndDate == startOfDay(targetDate)
         IN  [startDate |-> newStartDate,
              endDate |-> IF newEndDate <= newStartDate
                          THEN addDays(newStartDate, 1) ELSE newEndDate]

ResizeMove(target) ==
    /\ resize.isResizing /\ IsSome(resize.resizeMode)
    /\ IsSome(Get(resize.closure).tempStartDate)
    /\ IsSome(Get(resize.closure).tempEndDate)
    /\ resize' =
         IF IsSome(target)
         THEN LET c == ResizeCandidate(Get(resize.task), Get(resize.resizeMode),
                                       ResizeTarget(Get(target)))
              IN  [resize EXCEPT !.tempStartDate = Some(c.startDate),
                                 !.tempEndDate = Some(c.endDate),
                                 !.over = target]
         ELSE [resize EXCEPT !.over = None]
    /\ dispatched' = <<>>
    /\ UNCHANGED <<tz, dst, persistVars,
                   clock, today, tasks, filters, modal, dragSelection,
                   currentMonth,
                   gridDragging, cellDragging, upClosure, pointerCell, formData, dnd>>

\* a handleResizeEnd that reads the temp dates of the last render
ResizeEndActionsCurrent ==
    IF IsSome(resize.tempStartDate) /\ IsSome(resize.tempEndDate)
    THEN <<[type |-> "UPDATE_TASK",
            payload |-> [Get(resize.task) EXCEPT
                           !.startDate = Get(resize.tempStartDate),
                           !.endDate = Get(resize.tempEndDate)]]>>
    ELSE <<>>

\* handleResizeEnd, as closed over by the mouseup listener
ResizeEndActions ==
    LET c == Get(resize.closure)
    IN  IF IsSome(c.tempStartDate) /\ IsSome(c.tempEndDate)
        THEN <<[type |-> "UPDATE_TASK",
                payload |-> [Get(resize.task) EXCEPT
                               !.startDate = Get(c.tempStartDate),
                               !.endDate = Get(c.tempEndDate)]]>>
        ELSE <<>>

\* mouseup; when the pointer is released on the handle it was pressed on, the
\* click that follows reaches the bar's handleClick, with the re-rendered task
ResizeEnd(click) ==
    /\ resize.isResizing
    /\ resize' = initialResize
    /\ LET after == ReduceAll(CalendarState, ResizeEndActions).tasks
           same == {j \in 1..Len(after) : after[j].id = Get(resize.task).id}
           more == IF click /\ same # {}
                   THEN ClickActions(after[CHOOSE j \in same : TRUE]) ELSE <<>>
       IN  /\ Dispatch(ResizeEndActions \o more)
           /\ FormEffect(more)
    /\ UNCHANGED <<tz, dst, persistVars,
                   clock, today, gridDragging, cellDragging, upClosure,
                   pointerCell, dnd>>

---------------------------------------------------------------------------
(* TaskModal *)

\* what the user types or picks in the form
FormNames == {<<>>, <<" ">>, <<"a">>, <<"A", " ">>}
FormCategories == {"todo", "review"}
FormDates == {None} \cup {Some(d) : d \in Days}

\* the onChange handlers of the four inputs
SetFormField(field, value) ==
    /\ modal.isOpen
    /\ formData[field] # value
    /\ formData' = [formData EXCEPT ![field] = value]
    /\ dispatched' = <<>>
    /\ UNCHANGED <<tz, dst, persistVars,
                   clock, today, tasks, filters, modal, dragSelection,
                   currentMonth,
                   gridDragging, cellDragging, upClosure, pointerCell, resize, dnd>>

FormSetName(v) == SetFormField("name", v)
FormSetCategory(v) == SetFormField("category", v)
FormSetStartDate(v) == SetFormField("startDate", v)
FormSetEndDate(v) == SetFormField("endDate", v)

CloseAction == [type |-> "SET_MODAL", payload |-> [isOpen |-> FALSE]]

\* formData.startDate ? new Date(formData.startDate) : (task?.startDate ? ... : new Date())
FormDate(field) ==
    LET t == IF IsSome(modal.task) THEN Get(modal.task) ELSE [none |-> TRUE]
    IN  IF IsSome(formData[field]) THEN ParseDateString(Get(formData[field]))
        ELSE IF field \in DOMAIN t THEN t[field]
        ELSE today

\* handleSubmit, mode === 'create'
NewTask ==
    [id |-> clock,
     name |-> trim(formData.name),
     category |-> formData.category,
     startDate |-> FormDate("startDate"),
     endDate |-> FormDate("endDate"),
     createdAt |-> clock]

\* an edit that stamps the task with the time of the edit
EditedTaskRestamped ==
    Merge(Get(modal.task),
          [name |-> trim(formData.name),
           category |-> formData.category,
           startDate |-> FormDate("startDate"),
           endDate |-> FormDate("endDate"),
           createdAt |-> clock])

\* handleSubmit, mode === 'edit'
EditedTask ==
    Merge(Get(modal.task),
          [name |-> trim(formData.name),
           category |-> formData.category,
           startDate |-> FormDate("startDate"),
           endDate |-> FormDate("endDate")])

\* a submit that does not look at the name
SubmitActionsAnyName ==
    (IF modal.mode = "create"
     THEN <<[type |-> "ADD_TASK", payload |-> NewTask]>>
     ELSE IF modal.mode = "edit" /\ IsSome(modal.task)
             /\ "id" \in DOMAIN Get(modal.task)
     THEN <<[type |-> "UPDATE_TASK", payload |-> EditedTask]>>
     ELSE <<>>)
    \o <<CloseAction>>

\* handleSubmit
SubmitActions ==
    IF trim(formData.name) = <<>> THEN <<>>
    ELSE (IF modal.mode = "create"
          THEN <<[type |-> "ADD_TASK", payload |-> NewTask]>>
          ELSE IF modal.mode = "edit" /\ IsSome(modal.task)
                  /\ "id" \in DOMAIN Get(modal.task)
          THEN <<[type |-> "UPDATE_TASK", payload |-> EditedTask]>>
          ELSE <<>>)
         \o <<CloseAction>>

Creates(actions) == \E i \in 1..Len(actions) : actions[i].type = "ADD_TASK"

FormSubmit ==
    /\ modal.isOpen
    /\ Creates(SubmitActions) => clock <= MaxCreated
    /\ Dispatch(SubmitActions)
    /\ FormEffect(SubmitActions)
    /\ clock' = IF Creates(SubmitActions) THEN clock + 1 ELSE clock
    /\ UNCHANGED <<tz, dst, persistVars,
                   today, gridDragging, cellDragging, upClosure, pointerCell,
                   resize, dnd>>

\* handleDelete; the button is rendered in edit mode only
DeleteActions(confirmDelete) ==
    LET t == IF IsSome(modal.task) THEN Get(modal.task) ELSE [none |-> TRUE]
    IN  IF "id" \in DOMAIN t /\ "name" \in DOMAIN t /\ t.name # <<>> /\ confirmDelete
        THEN <<[type |-> "DELETE_TASK", payload |-> t.id], CloseAction>>
        ELSE <<>>

FormDelete(confirmDelete) ==
    /\ modal.isOpen /\ modal.mode = "edit"
    /\ Dispatch(DeleteActions(confirmDelete))
    /\ FormEffect(DeleteActions(confirmDelete))
    /\ UNCHANGED <<tz, dst, persistVars,
                   clock, today, gridDragging, cellDragging, upClosure,
                   pointerCell, resize, dnd>>

\* Cancel, or a click on the backdrop: closeModal
FormClose ==
    /\ modal.isOpen
    /\ Dispatch(<<CloseAction>>)
    /\ FormEffect(<<CloseAction>>)
    /\ UNCHANGED <<tz, dst, persistVars,
                   clock, today, gridDragging, cellDragging, upClosure,
                   pointerCell, resize, dnd>>

---------------------------------------------------------------------------
(* The application *)

Init ==
    /\ tz \in TimeZones
    /\ dst \in DstDays
    /\ clock = 1
    /\ today = 0
    /\ tasks = <<>>
    /\ filters = initialFilters
    /\ modal = initialModal
    /\ dragSelection = initialDragSelection
    /\ currentMonth = initialMonth
    /\ localStorage = None
    /\ timeoutId = None
    /\ phase = "mounted"
    /\ loadQueue = <<>>
    /\ gridDragging = FALSE
    /\ cellDragging = None
    /\ upClosure = initialDragSelection
    /\ pointerCell = None
    /\ formData = FormOf(None)
    /\ resize = initialResize
    /\ dnd = None
    /\ dispatched = <<>>

Next ==
    \/ \E d \in Days : CellMouseDown(d)
    \/ \E d \in Days : CellMouseEnter(d)
    \/ CellMouseUp
    \/ \E i \in 1..Len(tasks), d \in Days : TaskPointerDown(i, d)
    \/ TaskPointerMove
    \/ \E over \in {None} \cup {Some(d) : d \in Days} : TaskDrop(over)
    \/ TaskClick
    \/ \E i \in 1..Len(tasks), d \in BarDays, edge \in {"start", "end"} :
          ResizeStart(i, d, edge)
    \/ \E target \in {None} \cup {Some(d) : d \in BarDays} : ResizeMove(target)
    \/ \E click \in BOOLEAN : ResizeEnd(click)
    \/ \E v \in FormNames : FormSetName(v)
    \/ \E v \in FormCategories : FormSetCategory(v)
    \/ \E v \in FormDates : FormSetStartDate(v)
    \/ \E v \in FormDates : FormSetEndDate(v)
    \/ FormSubmit
    \/ \E c \in BOOLEAN : FormDelete(c)
    \/ FormClose

Spec == Init /\ [][Next]_vars

---------------------------------------------------------------------------
(* The store on its own: calendarReducer under every action of a bounded   *)
(* set, from initialState.  The reducer does not look at the ids it is     *)
(* given: a list may come to hold an id twice, and an action may name an   *)
(* id no task has.                                                         *)

StoreTasks ==
    [id : 1..MaxId, name : {<<"a">>, <<"b">>}, category : {"todo"},
     startDate : {2}, endDate : {4}, createdAt : {1}]

StoreDispatch(action) ==
    /\ action.type = "ADD_TASK" => Len(tasks) < MaxListLen
    /\ Dispatch(<<action>>)
    /\ UNCHANGED <<tz, dst, persistVars,
                   clock, today, gridDragging, cellDragging, upClosure,
                   pointerCell, formData, resize, dnd>>

InitStore ==
    /\ Init
    /\ tz = 0
    /\ dst = None

NextStore ==
    \/ \E t \in StoreTasks : StoreDispatch([type |-> "ADD_TASK", payload |-> t])
    \/ \E t \in StoreTasks : StoreDispatch([type |-> "UPDATE_TASK", payload |-> t])
    \/ \E id \in 1..MaxId : StoreDispatch([type |-> "DELETE_TASK", payload |-> id])
    \/ StoreDispatch([type |-> "SET_FILTERS", payload |-> [searchQuery |-> <<"a">>]])
    \/ StoreDispatch([type |-> "SET_MODAL", payload |-> [isOpen |-> TRUE]])
    \/ StoreDispatch([type |-> "SET_DRAG_SELECTION",
                      payload |-> [isSelecting |-> TRUE]])

SpecStore == InitStore /\ [][NextStore]_vars

---------------------------------------------------------------------------
(* The filter panel over a task list: FilterPanel's handlers and the       *)
(* filterTasks(tasks, state.filters) of every render, for bounded task     *)
(* lists and days.                                                         *)

FilterRanges ==
    {[startDate |-> 0, endDate |-> 0], [startDate |-> 2, endDate |-> 2],
     [startDate |-> 2, endDate |-> 16], [startDate |-> 18, endDate |-> 20]}

\* two tasks per range, of different names and categories
FilterTasks ==
    {t \in [id : {1}, name : {<<"a">>, <<"A", "b">>}, category : {"todo", "review"},
            startDate : {r.startDate : r \in FilterRanges},
            endDate : {r.endDate : r \in FilterRanges}, createdAt : {1}] :
        /\ [startDate |-> t.startDate, endDate |-> t.endDate] \in FilterRanges
        /\ (t.name = <<"a">>) = ((t.category = "todo") = (t.startDate = t.endDate))}

RECURSIVE SeqsUpTo(_, _)
SeqsUpTo(S, n) ==
    IF n = 0 THEN {<<>>}
    ELSE SeqsUpTo(S, n - 1)
         \cup {Append(q, x) : q \in {r \in SeqsUpTo(S, n - 1) : Len(r) = n - 1},
                              x \in S}

\* Array.prototype.filter(c => c !== category)
RECURSIVE Without(_, _)
Without(s, x) ==
    IF s = <<>> THEN <<>>
    ELSE (IF Head(s) # x THEN <<Head(s)>> ELSE <<>>) \o Without(Tail(s), x)

PanelUnchanged ==
    UNCHANGED <<tz, dst, persistVars,
                clock, today, gridDragging, cellDragging, upClosure,
                pointerCell, formData, resize, dnd>>

handleCategoryToggle(category) ==
    /\ Dispatch(<<[type |-> "SET_FILTERS",
                   payload |-> [categories |->
                       IF SeqContains(filters.categories, category)
                       THEN Without(filters.categories, category)
                       ELSE Append(filters.categories, category)]]>>)
    /\ PanelUnchanged

handleDurationChange(duration) ==
    /\ Dispatch(<<[type |-> "SET_FILTERS", payload |-> [duration |-> duration]]>>)
    /\ PanelUnchanged

handleSearchChange(searchQuery) ==
    /\ Dispatch(<<[type |-> "SET_FILTERS",
                   payload |-> [searchQuery |-> searchQuery]]>>)
    /\ PanelUnchanged

clearAllFilters ==
    /\ Dispatch(<<[type |-> "SET_FILTERS",
                   payload |-> [categories |-> <<>>, duration |-> None,
                                searchQuery |-> <<>>]]>>)
    /\ PanelUnchanged

InitFilter ==
    /\ tz = 0
    /\ dst = None
    /\ clock = 1
    /\ today \in 1..MaxToday
    /\ tasks \in SeqsUpTo(FilterTasks, MaxFiltered)
    /\ filters = initialFilters
    /\ modal = initialModal
    /\ dragSelection = initialDragSelection
    /\ currentMonth = initialMonth
    /\ localStorage = None
    /\ timeoutId = None
    /\ phase = "mounted"
    /\ loadQueue = <<>>
    /\ gridDragging = FALSE
    /\ cellDragging = None
    /\ upClosure = initialDragSelection
    /\ pointerCell = None
    /\ formData = FormOf(None)
    /\ resize = initialResize
    /\ dnd = None
    /\ dispatched = <<>>

NextFilter ==
    \/ \E c \in {"todo", "review"} : handleCategoryToggle(c)
    \/ \E d \in {None, Some(1), Some(2), Some(3)} : handleDurationChange(d)
    \/ \E q \in {<<>>, <<"a">>, <<"B">>} : handleSearchChange(q)
    \/ clearAllFilters

SpecFilter == InitFilter /\ [][NextFilter]_vars

---------------------------------------------------------------------------
(* Persistence: the load and save effects of CalendarProvider.              *)
(*                                                                         *)
(* The text of a localStorage item is modelled by what JSON.parse makes of *)
(* it: [json |-> FALSE] is a text JSON.parse rejects, [json |-> TRUE,      *)
(* value |-> v] a text that parses to the object v.  A Date is written as  *)
(* its ISO string, [iso |-> t].                                            *)

\* Date.prototype.toJSON and new Date(isoString)
toJSON(date) == [iso |-> date]
NewDate(string) == string.iso

\* JSON.stringify(state), seen through JSON.parse.  The model saves no state
\* with a task in modal.task or a date in dragSelection.
Stringify(state) ==
    [json |-> TRUE,
     value |-> [state EXCEPT
        !.tasks = [i \in 1..Len(state.tasks) |->
                     [state.tasks[i] EXCEPT !.startDate = toJSON(@),
                                            !.endDate = toJSON(@),
                                            !.createdAt = toJSON(@)]],
        !.currentMonth = toJSON(@)]]

\* restoredState of the load effect
Restore(parsedState) ==
    Merge(parsedState,
          [tasks |-> [i \in 1..Len(parsedState.tasks) |->
                        [parsedState.tasks[i] EXCEPT !.startDate = NewDate(@),
                                                     !.endDate = NewDate(@),
                                                     !.createdAt = NewDate(@)]],
           currentMonth |-> NewDate(parsedState.currentMonth)])

\* the load effect: what it dispatches for the saved item.  JSON.parse throws for
\* a text that is not JSON and parsedState.tasks.map throws without tasks; the
\* catch block logs the error.
LoadEffect(savedState) ==
    IF ~IsSome(savedState) THEN <<>>
    ELSE IF ~Get(savedState).json THEN <<>>
    ELSE IF "tasks" \notin DOMAIN Get(savedState).value THEN <<>>
    ELSE <<[type |-> "LOAD_STATE", payload |-> Restore(Get(savedState).value)]>>

\* FilterPanel's render reads filters.categories.includes: a TypeError without
\* categories, which unmounts the application
Renders(state) == "categories" \in DOMAIN state.filters

SetState(state) ==
    /\ tasks' = state.tasks
    /\ filters' = state.filters
    /\ modal' = state.modal
    /\ dragSelection' = state.dragSelection
    /\ currentMonth' = state.currentMonth

GesturesUnchanged ==
    UNCHANGED <<tz, dst, clock, today, gridDragging, cellDragging, upClosure,
                pointerCell, formData, resize, dnd>>

\* the page is opened: the first render shows initialState, then the load effect
\* and the save effect run in this order
PageLoad ==
    /\ phase = "closed"
    /\ SetState(initialState)
    /\ loadQueue' = LoadEffect(localStorage)
    /\ timeoutId' = Some(initialState)
    /\ phase' = "effects"
    /\ dispatched' = <<>>
    /\ UNCHANGED localStorage
    /\ GesturesUnchanged

\* React renders what the load effect dispatched: the save effect's cleanup
\* clears the timeout and the effect sets one for the new state.  The render is
\* scheduled at once and the timeout 100 ms later: the timeout does not run first.
RenderLoaded ==
    /\ phase = "effects"
    /\ LET state == ReduceAll(CalendarState, loadQueue)
       IN  /\ SetState(state)
           /\ IF loadQueue = <<>> THEN phase' = "mounted" /\ UNCHANGED timeoutId
              ELSE IF Renders(state)
              THEN phase' = "mounted" /\ timeoutId' = Some(state)
              ELSE phase' = "crashed" /\ timeoutId' = None
    /\ dispatched' = loadQueue
    /\ loadQueue' = <<>>
    /\ UNCHANGED localStorage
    /\ GesturesUnchanged

\* a dispatch whose render sets no new timeout while one is pending
SavedDispatchKeepTimer(action) ==
    /\ phase = "mounted"
    /\ Dispatch(<<action>>)
    /\ timeoutId' = IF IsSome(timeoutId) THEN timeoutId
                    ELSE Some(calendarReducer(CalendarState, action))
    /\ UNCHANGED <<localStorage, phase, loadQueue>>
    /\ GesturesUnchanged

\* a dispatch of the mounted application, and the save effect of its render
SavedDispatch(action) ==
    /\ phase = "mounted"
    /\ Dispatch(<<action>>)
    /\ timeoutId' = Some(calendarReducer(CalendarState, action))
    /\ UNCHANGED <<localStorage, phase, loadQueue>>
    /\ GesturesUnchanged

\* the timeout of the save effect runs
SaveTimeout ==
    /\ phase = "mounted"
    /\ IsSome(timeoutId)
    /\ localStorage' = Some(Stringify(Get(timeoutId)))
    /\ timeoutId' = None
    /\ dispatched' = <<>>
    /\ UNCHANGED <<phase, loadQueue, tasks, filters, modal, dragSelection,
                   currentMonth>>
    /\ GesturesUnchanged

\* the page is closed or reloaded: its memory and its timeouts are gone
PageClose ==
    /\ phase \in {"mounted", "crashed"}
    /\ phase' = "closed"
    /\ timeoutId' = None
    /\ SetState(initialState)
    /\ dispatched' = <<>>
    /\ UNCHANGED <<localStorage, loadQueue>>
    /\ GesturesUnchanged

SavedTasks ==
    [id : 1..MaxId, name : {<<"a">>}, category : {"todo"}, startDate : {2},
     endDate : {4}, createdAt : {1}]

\* what the item holds when the page is first opened: nothing, a text that is
\* not JSON, an object without tasks, an object whose filters lack fields, or
\* the snapshot of a state
SavedItems ==
    {None,
     Some([json |-> FALSE]),
     Some([json |-> TRUE, value |-> [filters |-> initialFilters]]),
     Some([json |-> TRUE,
           value |-> [Stringify(initialState).value EXCEPT
                        !.filters = [searchQuery |-> <<>>]]])}
    \cup {Some(Stringify([initialState EXCEPT !.tasks = <<t>>])) : t \in SavedTasks}

InitPersist ==
    /\ tz = 0
    /\ dst = None
    /\ clock = 1
    /\ today = 0
    /\ tasks = <<>>
    /\ filters = initialFilters
    /\ modal = initialModal
    /\ dragSelection = initialDragSelection
    /\ currentMonth = initialMonth
    /\ localStorage \in SavedItems
    /\ timeoutId = None
    /\ phase = "closed"
    /\ loadQueue = <<>>
    /\ gridDragging = FALSE
    /\ cellDragging = None
    /\ upClosure = initialDragSelection
    /\ pointerCell = None
    /\ formData = FormOf(None)
    /\ resize = initialResize
    /\ dnd = None
    /\ dispatched = <<>>

NextPersist ==
    \/ PageLoad
    \/ RenderLoaded
    \/ \E t \in SavedTasks :
          /\ Len(tasks) < MaxId
          /\ SavedDispatch([type |-> "ADD_TASK", payload |-> t])
    \/ \E id \in 1..MaxId : SavedDispatch([type |-> "DELETE_TASK", payload |-> id])
    \/ SavedDispatch([type |-> "SET_FILTERS", payload |-> [searchQuery |-> <<"a">>]])
    \/ SaveTimeout
    \/ PageClose

SpecPersist == InitPersist /\ [][NextPersist]_vars

---------------------------------------------------------------------------
(* App and CalendarGrid: the month view.                                    *)
(*                                                                         *)
(* currentMonth is a Date in its local calendar fields: month counts the   *)
(* months from January 2026 (getMonth() is month % 12) and date is the day *)
(* of the month.  2026 and 2027 are not leap years.                        *)

MaxMonth == 11

\* the number of days of a month
DaysInMonth(m) ==
    LET k == m % 12
    IN  IF k = 1 THEN 28 ELSE IF k \in {3, 5, 8, 10} THEN 30 ELSE 31

\* the days from 1 January 2026 to the first of the month
RECURSIVE DaysBefore(_)
DaysBefore(m) == IF m = 0 THEN 0 ELSE DaysBefore(m - 1) + DaysInMonth(m - 1)

\* the calendar day of a date, counted from 1 January 2026
DayNumber(date) == DaysBefore(date.month) + date.date - 1

\* Date.getDay of a calendar day, 0 for Sunday: 1 January 2026 is a Thursday
getDay(n) == (n + 4) % 7

\* date-fns startOfMonth, endOfMonth, startOfWeek and endOfWeek, as calendar days
startOfMonth(date) == DayNumber([date EXCEPT !.date = 1])
endOfMonth(date) == DayNumber([date EXCEPT !.date = DaysInMonth(date.month)])
startOfWeekDay(n) == n - getDay(n)
endOfWeekDay(n) == n + (6 - getDay(n))

\* dateUtils.getCalendarDays: the calendar days of the grid, in order
getCalendarDays(date) ==
    LET monthStart == startOfMonth(date)
        monthEnd == endOfMonth(date)
        calendarStart == startOfWeekDay(monthStart)
        calendarEnd == endOfWeekDay(monthEnd)
    IN  [i \in 1..(calendarEnd - calendarStart + 1) |-> calendarStart + i - 1]

\* Date.prototype.setMonth: the day of the month is kept, and a day the month
\* does not have runs over into the month after it
setMonth(date, m) ==
    IF date.date > DaysInMonth(m)
    THEN [month |-> m + 1, date |-> date.date - DaysInMonth(m)]
    ELSE [month |-> m, date |-> date.date]

MonthDispatch(newMonth) ==
    /\ newMonth.month \in 0..MaxMonth
    /\ Dispatch(<<[type |-> "SET_CURRENT_MONTH", payload |-> newMonth]>>)
    /\ UNCHANGED <<tz, dst, persistVars, clock, today, gridDragging, cellDragging,
                   upClosure, pointerCell, formData, resize, dnd>>

handlePreviousMonth == MonthDispatch(setMonth(currentMonth, currentMonth.month - 1))

handleNextMonth == MonthDispatch(setMonth(currentMonth, currentMonth.month + 1))

handleToday == MonthDispatch(initialMonth)

\* new Date() when the module is loaded: any day of the months of the model
MonthDates == {d \in [month : 0..MaxMonth, date : 1..31] : d.date <= DaysInMonth(d.month)}

InitMonth ==
    /\ tz = 0
    /\ dst = None
    /\ clock = 1
    /\ today = 0
    /\ tasks = <<>>
    /\ filters = initialFilters
    /\ modal = initialModal
    /\ dragSelection = initialDragSelection
    /\ currentMonth \in MonthDates
    /\ localStorage = None
    /\ timeoutId = None
    /\ phase = "mounted"
    /\ loadQueue = <<>>
    /\ gridDragging = FALSE
    /\ cellDragging = None
    /\ upClosure = initialDragSelection
    /\ pointerCell = None
    /\ formData = FormOf(None)
    /\ resize = initialResize
    /\ dnd = None
    /\ dispatched = <<>>

NextMonth == handlePreviousMonth \/ handleNextMonth \/ handleToday

SpecMonth == InitMonth /\ [][NextMonth]_vars

---------------------------------------------------------------------------
(* Properties of the task store *)

\* the length of a task in calendar days, as the grid shows it
DayDuration(task) == LocalDay(task.endDate) - LocalDay(task.startDate)

\* the step is one dispatch of a single action of the given type
Dispatches(type) == Len(dispatched') = 1 /\ dispatched'[1].type = type

\* C1: in every reachable state every stored task has startDate <= endDate, by
\* day, whatever sequence of drag-select creations, form submissions (with
\* edited date fields), moves, resizes and deletions led to it.
C1_RangesOrdered ==
    \A i \in 1..Len(tasks) : LocalDay(tasks[i].startDate) <= LocalDay(tasks[i].endDate)

\* C2: UPDATE_TASK puts the payload in the place of every task with the payload's
\* id, keeps the number and the order of the tasks, leaves the other tasks as
\* they were, and leaves the list as it was when no task has the id.
C2_UpdateReplacesById ==
    [][Dispatches("UPDATE_TASK") =>
         LET p == dispatched'[1].payload
         IN  /\ Len(tasks') = Len(tasks)
             /\ \A i \in 1..Len(tasks) :
                   tasks'[i] = IF tasks[i].id = p.id THEN p ELSE tasks[i]
             /\ (\A i \in 1..Len(tasks) : tasks[i].id # p.id) => tasks' = tasks
             /\ filters' = filters /\ modal' = modal
             /\ dragSelection' = dragSelection]_vars

\* an update has replaced a task in a list that also holds a task of another id
C2_Updated ==
    /\ Len(dispatched) = 1 /\ dispatched[1].type = "UPDATE_TASK"
    /\ \E i, j \in 1..Len(tasks) :
          /\ i < j
          /\ tasks[j] = dispatched[1].payload
          /\ tasks[i].id # dispatched[1].payload.id

\* C3: DELETE_TASK with an id no task has changes nothing (tasks, filters, modal,
\* selection); with an id some task has, it removes exactly the tasks with that
\* id and keeps the others in their order.
C3_DeleteRemovesById ==
    [][Dispatches("DELETE_TASK") =>
         LET id == dispatched'[1].payload
             Keep(t) == t.id # id
         IN  /\ tasks' = SelectSeq(tasks, Keep)
             /\ (\A i \in 1..Len(tasks) : tasks[i].id # id) => tasks' = tasks
             /\ filters' = filters /\ modal' = modal
             /\ dragSelection' = dragSelection]_vars

\* a delete has left a full list: ADD_TASK stops at MaxListLen tasks, so the
\* deleted id was one no task had; the modal was open and stayed so
C3_DeletedUnknownId ==
    /\ Len(dispatched) = 1 /\ dispatched[1].type = "DELETE_TASK"
    /\ Len(tasks) = MaxListLen
    /\ \A i \in 1..Len(tasks) : tasks[i].id # dispatched[1].payload
    /\ modal.isOpen

---------------------------------------------------------------------------
(* Properties of the gestures *)

\* the step is the drop that ends a move of a task bar
IsTaskDrop == dnd # None /\ Get(dnd).moved /\ dnd' = None

\* the step is the release that ends a resize
IsResizeEnd == resize.isResizing /\ ~resize'.isResizing

\* C4: a move commits a task with the same duration in days as the task had
\* before it, and with the same id, name, category and createdAt.
C4_MovePreservesDuration ==
    [][(IsTaskDrop /\ dispatched'[1].type = "UPDATE_TASK") =>
         LET old == Get(dnd).task
             new == dispatched'[1].payload
         IN  /\ DayDuration(new) = DayDuration(old)
             /\ new.id = old.id /\ new.name = old.name
             /\ new.category = old.category /\ new.createdAt = old.createdAt]_vars

\* C5: the range a resize commits to the store is at least one day long, for
\* every task (one that starts and ends on the same day included) and every
\* sequence of pointer moves before the release (none included).
C5_ResizeKeepsOneDay ==
    [][IsResizeEnd =>
         \A i \in 1..Len(dispatched') :
            dispatched'[i].type = "UPDATE_TASK" =>
               DayDuration(dispatched'[i].payload) >= 1]_vars

\* C6: the edge that is not dragged stays where the task has it: in every
\* candidate of a resize of the start edge endDate is the task's endDate, in
\* every candidate of a resize of the end edge startDate is the task's
\* startDate, and so it is in the range the release commits.
C6_OtherEdgeFixed ==
    [][/\ resize'.isResizing =>
            LET t == Get(resize'.task)
            IN  /\ \E i \in 1..Len(tasks') : tasks'[i] = t
                /\ resize'.resizeMode = Some("start") =>
                      resize'.tempEndDate = Some(t.endDate)
                /\ resize'.resizeMode = Some("end") =>
                      resize'.tempStartDate = Some(t.startDate)
       /\ IsResizeEnd =>
            LET t == Get(resize.task)
            IN  \A i \in 1..Len(tasks') :
                   tasks'[i].id = t.id =>
                      /\ resize.resizeMode = Some("start") =>
                            tasks'[i].endDate = t.endDate
                      /\ resize.resizeMode = Some("end") =>
                            tasks'[i].startDate = t.startDate]_vars

\* a resize of the start edge whose candidate start has left the task's start
C6_StartEdgeDragged ==
    /\ resize.isResizing
    /\ resize.resizeMode = Some("start")
    /\ IsSome(resize.over)
    /\ resize.tempStartDate # Some(Get(resize.task).startDate)

\* C7: with the end edge dragged to a target day <= the start day the candidate
\* end is the start day + 1, with the start edge dragged to a target day >= the
\* end day the candidate start is the end day - 1; otherwise the dragged edge is
\* the target day (the day handleResizeMove found for the pointer).
C7_ResizeClamp ==
    (resize.isResizing /\ IsSome(resize.over)) =>
        LET t == Get(resize.task)
            d == LocalDay(ResizeTarget(Get(resize.over)))
            s == LocalDay(t.startDate)
            e == LocalDay(t.endDate)
        IN  IF resize.resizeMode = Some("end")
            THEN LocalDay(Get(resize.tempEndDate)) = (IF d <= s THEN s + 1 ELSE d)
            ELSE LocalDay(Get(resize.tempStartDate)) = (IF d >= e THEN e - 1 ELSE d)

\* C8: a press on day p, the pointer then over another day h, and the release
\* open the creation form with the range (min(p, h), max(p, h)).
C8_DragSelectRange ==
    [][(/\ cellDragging # None /\ dnd = None /\ cellDragging' = None
        /\ IsSome(pointerCell) /\ pointerCell # cellDragging) =>
         LET p == Get(cellDragging)
             h == Get(pointerCell)
             lo == IF p < h THEN p ELSE h
             hi == IF p < h THEN h ELSE p
         IN  /\ modal'.isOpen /\ modal'.mode = "create"
             /\ modal'.task = Some([startDate |-> CellDate(lo),
                                    endDate |-> CellDate(hi)])]_vars

\* C9: a press takes the selection from idle to selecting, and every release
\* takes it back to idle: startDate null, endDate null, isSelecting false, with
\* or without the creation form, and whatever is done with the form afterwards.
C9_SelectionResets ==
    [][/\ (cellDragging = None /\ cellDragging' # None) =>
            /\ dragSelection = initialDragSelection
            /\ dragSelection'.isSelecting
            /\ IsSome(dragSelection'.startDate)
       /\ cellDragging' = None => dragSelection' = initialDragSelection]_vars

\* a release has opened the creation form and reset the selection
C9_ReleasedWithForm ==
    /\ cellDragging = None
    /\ Len(dispatched) = 2
    /\ dispatched[1].type = "SET_MODAL"
    /\ dispatched[2].type = "SET_DRAG_SELECTION"
    /\ modal.isOpen /\ modal.mode = "create"
    /\ dragSelection = initialDragSelection

---------------------------------------------------------------------------
(* Properties of the filter *)

\* C10: with the default filters (no category, no duration, empty search text)
\* filterTasks returns every task, in the same order.
C10_DefaultFilterKeepsAll ==
    filters = initialFilters => filterTasks(tasks, filters) = tasks

\* the filters are back at their defaults over a list of two different tasks
C10_DefaultsOverTwoTasks ==
    /\ filters = initialFilters
    /\ dispatched # <<>>
    /\ Len(tasks) = MaxFiltered
    /\ tasks[1] # tasks[2]

\* C11: filtering twice with the same filters, on the same day, gives what
\* filtering once gives.
C11_FilterIdempotent ==
    filterTasks(filterTasks(tasks, filters), filters) = filterTasks(tasks, filters)

\* the filters keep some tasks of the list and drop others
C11_FilterDropsSome ==
    /\ filterTasks(tasks, filters) # tasks
    /\ filterTasks(tasks, filters) # <<>>

\* a is b with some of its elements left out
RECURSIVE IsSubseq(_, _)
IsSubseq(a, b) ==
    IF a = <<>> THEN TRUE
    ELSE IF b = <<>> THEN FALSE
    ELSE IF Head(a) = Head(b) THEN IsSubseq(Tail(a), Tail(b))
    ELSE IsSubseq(a, Tail(b))

\* C12: the result of filterTasks is a subsequence of the task list (tasks of the
\* list only, none more often than in the list, in the order of the list), and
\* the task list is left as it was; the filters change by what the panel
\* dispatches only.
C12_FilterSubsequence ==
    [][/\ IsSubseq(filterTasks(tasks, filters), tasks)
       /\ IsSubseq(filterTasks(tasks', filters'), tasks')
       /\ tasks' = tasks
       /\ filters' = Merge(filters, dispatched'[1].payload)]_vars

\* of two different tasks the filters have dropped the first and kept the second
C12_KeepsSecondOnly ==
    /\ Len(tasks) = 2
    /\ tasks[1] # tasks[2]
    /\ dispatched # <<>>
    /\ filterTasks(tasks, filters) = <<tasks[2]>>

\* the category rule and the search rule
PassesCategoryAndSearch(task, f) ==
    /\ f.categories = <<>> \/ \E i \in 1..Len(f.categories) : f.categories[i] = task.category
    /\ f.searchQuery = <<>>
       \/ \E i \in 1..Len(task.name) :
             /\ i + Len(f.searchQuery) - 1 <= Len(task.name)
             /\ \A k \in 1..Len(f.searchQuery) :
                   Lower(task.name[i + k - 1]) = Lower(f.searchQuery[k])

\* C13: without a duration, a task is in the result iff (no category is selected
\* or its category is a selected one) and (the search text is empty or its name,
\* lower-cased, contains the lower-cased search text).
C13_CategoryAndSearch ==
    filters.duration = None =>
        LET Pass(t) == PassesCategoryAndSearch(t, filters)
        IN  filterTasks(tasks, filters) = SelectSeq(tasks, Pass)

\* a category and a search text in capitals are set; one task passes, one does not
C13_BothRulesActive ==
    /\ filters.duration = None
    /\ filters.categories # <<>>
    /\ filters.searchQuery = <<"B">>
    /\ Len(tasks) = 2
    /\ Len(filterTasks(tasks, filters)) = 1

\* the days of the task and the days of the window have a day in common
OverlapsWindowByDay(task, weeks) ==
    /\ LocalDay(task.endDate) >= LocalDay(today)
    /\ LocalDay(task.startDate) <= LocalDay(today) + 7 * weeks

\* C14: with a duration of N weeks, a task passes iff its days overlap the days
\* today .. today + 7N, both ends included: a task that ends today passes, one
\* that starts on the last day of the window passes, one that ended before
\* today does not.
C14_DurationWindow ==
    (IsSome(filters.duration) /\ filters.categories = <<>>
     /\ filters.searchQuery = <<>>) =>
        LET Pass(t) == OverlapsWindowByDay(t, Get(filters.duration))
        IN  filterTasks(tasks, filters) = SelectSeq(tasks, Pass)

---------------------------------------------------------------------------
(* Properties of the date ranges and of the week rows *)

\* C15: normalizeDateRange(a, b) has start <= end, and is the same range as
\* normalizeDateRange(b, a), for the dates a and b of every stored task.
C15_NormalizeSymmetric ==
    \A i \in 1..Len(tasks) :
       LET a == tasks[i].startDate
           b == tasks[i].endDate
       IN  /\ normalizeDateRange(a, b).start <= normalizeDateRange(a, b).end
           /\ normalizeDateRange(b, a).start <= normalizeDateRange(b, a).end
           /\ normalizeDateRange(a, b) = normalizeDateRange(b, a)

\* the day cells of the week row of Days and of the row before it
GridDays == (1 - 7)..7

Min(a, b) == IF a <= b THEN a ELSE b
Max(a, b) == IF a <= b THEN b ELSE a

\* the day is one of the days min(start, end) .. max(start, end)
DayInRange(d, startDate, endDate) ==
    /\ Min(LocalDay(startDate), LocalDay(endDate)) <= d
    /\ d <= Max(LocalDay(startDate), LocalDay(endDate))

\* C16: isDateInRange(day, start, end) is true iff the day is one of the days
\* min(start, end) .. max(start, end), the two ends included, in either order
\* of start and end; getTasksForDay returns exactly the tasks for which it is.
C16_DayInRange ==
    \A d \in GridDays :
       /\ \A i \in 1..Len(tasks) :
             isDateInRange(CellDate(d), tasks[i].startDate, tasks[i].endDate)
                = DayInRange(d, tasks[i].startDate, tasks[i].endDate)
       /\ LET In(t) == DayInRange(d, t.startDate, t.endDate)
          IN  getTasksForDay(tasks, CellDate(d)) = SelectSeq(tasks, In)

\* the first days of the week rows of GridDays
WeekStarts == {1 - 7, 1}

WeekDays(w) == w..(w + 6)

\* the week row w renders a bar of the task in one of its cells
SegmentIn(task, w) == \E d \in WeekDays(w) : BarAt(task, d)

\* C17: a stored task has a rendered segment in a week row exactly when its
\* normalized day range (earlier day to later day, both inclusive) has a day in
\* the seven days of that row
C17_SegmentPerWeek ==
    \A i \in 1..Len(tasks) : \A w \in WeekStarts :
        SegmentIn(tasks[i], w) <=>
            (\E d \in WeekDays(w) :
                /\ Min(LocalDay(tasks[i].startDate), LocalDay(tasks[i].endDate)) <= d
                /\ d <= Max(LocalDay(tasks[i].startDate), LocalDay(tasks[i].endDate)))


---------------------------------------------------------------------------
(* Properties of the rendered bars *)

\* the metrics of the bar that cell d renders for the task
StaticMetrics(task, d) == getTaskMetrics(task, None, None, weekStartDate(CellDate(d)))

\* the metrics of the bar under resize, computed from its temp dates
PreviewMetrics ==
    getTaskMetrics(Get(resize.task), resize.tempStartDate, resize.tempEndDate,
                   weekStartDate(CellDate(Get(resize.day))))

\* width in [1/7, 1] and left + width <= 1, of the row of 7 * Seventh units, up to
\* 7 units (a hundredth of a percent, the rounding of 14.28 and 85.72)
InRow(m) ==
    /\ m.width >= Seventh - 7
    /\ m.width <= 7 * Seventh
    /\ m.left >= 0
    /\ m.left + m.width <= 7 * Seventh + 7

\* C18: every rendered bar, and the bar under resize with its temp dates, has a
\* width between 1/7 and 1 of the week row and left + width at most 1, within the
\* rounding of the percentages
C18_SegmentInRow ==
    /\ \A i \in 1..Len(tasks) : \A d \in GridDays :
            BarAt(tasks[i], d) => InRow(StaticMetrics(tasks[i], d))
    /\ resize.isResizing => InRow(PreviewMetrics)

\* a resize whose pointer has moved the dragged edge: the bar under resize is
\* drawn from its temp dates and differs from the bar of the stored task
C18_PreviewResized ==
    /\ resize.isResizing /\ IsSome(resize.over)
    /\ PreviewMetrics # StaticMetrics(Get(resize.task), Get(resize.day))

\* left and width of the days startDay..endDay in the week row that starts on day
\* w: the day offsets of the later of startDay and w and of the earlier of endDay
\* and w + 6
ExpectedSegment(startDay, endDay, w) ==
    LET startIdx == Max(startDay, w) - w
        endIdx == Min(endDay, w + 6) - w
    IN  [width |-> (endIdx - startIdx + 1) * Seventh, left |-> startIdx * Seventh]

\* C19: the bar a week row renders for a task has left = startIdx / 7 and
\* width = (endIdx - startIdx + 1) / 7 with startIdx, endIdx in 0..6 the day
\* offsets in the row of the task's visible first and last day; getTaskDisplayInfo
\* gives the same for every day of the task in the row
C19_SegmentMetrics ==
    \A i \in 1..Len(tasks) : \A w \in WeekStarts : \A d \in WeekDays(w) :
        LET task == tasks[i]
            expected == ExpectedSegment(LocalDay(task.startDate),
                                        LocalDay(task.endDate), w)
            info == getTaskDisplayInfo(task, CellDate(d), CellDate(w))
        IN  /\ BarAt(task, d) =>
                /\ StaticMetrics(task, d) = expected
                /\ expected.left \in {k * Seventh : k \in 0..6}
                /\ expected.left + expected.width <= 7 * Seventh
            /\ IsSome(info) => Get(info) = expected

---------------------------------------------------------------------------
(* Properties of the task form *)

\* C20: a submit of the form whose name is empty after trimming dispatches
\* nothing, leaves the tasks as they are and the modal open; every stored task
\* has a non-empty name without blanks at its ends
C20_BlankNameRefused ==
    [][/\ (FormSubmit /\ trim(formData.name) = <<>>) =>
            /\ dispatched' = <<>>
            /\ tasks' = tasks
            /\ modal' = modal /\ modal'.isOpen
            /\ formData' = formData
       /\ \A i \in 1..Len(tasks') :
            /\ tasks'[i].name # <<>>
            /\ trim(tasks'[i].name) = tasks'[i].name]_vars

\* the form of a stored task, its name replaced by a blank, after the last
\* handler dispatched nothing; the task was stored with the name typed as "A "
C20_BlankNameInEditForm ==
    /\ modal.isOpen /\ modal.mode = "edit"
    /\ formData.name = <<" ">>
    /\ dispatched = <<>>
    /\ \E i \in 1..Len(tasks) :
        /\ tasks[i].name = <<"A">>
        /\ IsSome(modal.task) /\ "id" \in DOMAIN Get(modal.task)
        /\ Get(modal.task).id = tasks[i].id

\* the days from the task's start day to its end day have a day in the week row w
IntersectsWeek(task, w) ==
    \E d \in WeekDays(w) : LocalDay(task.startDate) <= d /\ d <= LocalDay(task.endDate)

C29_TargetUnderPointer ==
    (resize.isResizing /\ IsSome(resize.over)) =>
        LET c == ResizeCandidate(Get(resize.task), Get(resize.resizeMode),
                                 CellDate(Get(resize.over)))
        IN  /\ resize.tempStartDate = Some(c.startDate)
            /\ resize.tempEndDate = Some(c.endDate)

---------------------------------------------------------------------------
(* Properties of the persistence *)

\* the saved item is the snapshot of a state: it parses to an object with the
\* fields of CalendarState, and its filters have the fields of FilterState
WellFormedItem(item) ==
    /\ item.json
    /\ DOMAIN item.value = DOMAIN initialState
    /\ DOMAIN item.value.filters = DOMAIN initialFilters

\* C21: when the page loads a saved item that is not the snapshot of a state (a
\* text that does not parse, or an object with missing or ill-typed fields), the
\* item is discarded and the store starts from the empty initial state
C21_MalformedDiscarded ==
    [][(RenderLoaded /\ IsSome(localStorage) /\ ~WellFormedItem(Get(localStorage)))
          => /\ tasks' = initialState.tasks
             /\ filters' = initialState.filters
             /\ modal' = initialState.modal
             /\ dragSelection' = initialState.dragSelection
             /\ phase' = "mounted"]_vars

---------------------------------------------------------------------------
(* Properties of the gestures *)

\* the gestures in progress: create-by-drag-select, move, resize
ActiveGestures ==
    (IF cellDragging # None \/ dragSelection.isSelecting THEN {"select"} ELSE {})
    \cup (IF dnd # None THEN {"move"} ELSE {})
    \cup (IF resize.isResizing THEN {"resize"} ELSE {})

\* C22: at most one gesture is in progress at any time: a press on the body or on
\* a resize handle of a task bar starts no drag-selection on the day cell under
\* it, and no move is in progress during a resize
C22_OneGesture == Cardinality(ActiveGestures) <= 1

\* C23: while a resize is in progress the tasks of the store do not change, and
\* the release dispatches exactly one UPDATE_TASK, which carries the candidate
\* range shown at the release
C23_ResizeCommitsAtRelease ==
    [][/\ (resize.isResizing /\ resize'.isResizing) => tasks' = tasks
       /\ IsResizeEnd =>
            LET updates == {k \in 1..Len(dispatched') :
                              dispatched'[k].type = "UPDATE_TASK"}
            IN  /\ Cardinality(updates) = 1
                /\ \A k \in updates :
                      /\ dispatched'[k].payload.id = Get(resize.task).id
                      /\ Some(dispatched'[k].payload.startDate) = resize.tempStartDate
                      /\ Some(dispatched'[k].payload.endDate) = resize.tempEndDate]_vars

C25_IdentityKept ==
    [][\A j \in 1..Len(tasks') :
         LET t == tasks'[j]
             before == {i \in 1..Len(tasks) : tasks[i].id = t.id}
         IN  IF before # {}
             THEN \A i \in before : tasks[i].createdAt = t.createdAt
             ELSE /\ modal.isOpen /\ modal.mode = "create"
                  /\ \E k \in 1..Len(dispatched') :
                        /\ dispatched'[k].type = "ADD_TASK"
                        /\ dispatched'[k].payload = t]_vars

\* the form in edit mode has just stored a task under its id, with other dates
\* than the task was created with
C25_EditedInForm ==
    /\ Len(dispatched) = 2
    /\ dispatched[1].type = "UPDATE_TASK" /\ dispatched[2] = CloseAction
    /\ \E i \in 1..Len(tasks) :
        /\ tasks[i] = dispatched[1].payload
        /\ tasks[i].createdAt = 1
        /\ tasks[i].startDate # tasks[i].endDate

\* C30: the stored snapshot mirrors the store.  Once the timeout of the save
\* effect has run and nothing was dispatched since, the item is the snapshot of
\* the current state; a pending timeout is the one of the current state (the
\* cleanup cleared every older one), so an older state is never written over a
\* newer snapshot; and until the loaded state is rendered the item is still the
\* one the load effect read.
C30_StorageMirrorsStore ==
    /\ (phase = "mounted" /\ timeoutId = None) =>
           localStorage = Some(Stringify(CalendarState))
    /\ (phase = "mounted" /\ IsSome(timeoutId)) => Get(timeoutId) = CalendarState
    /\ phase = "effects" => loadQueue = LoadEffect(localStorage)

\* the store holds two tasks and a search filter, and the timeout has run since
\* the last dispatch: the item holds both tasks and the filter
C30_SavedAfterLoadAndAdd ==
    /\ phase = "mounted" /\ timeoutId = None
    /\ Len(tasks) = 2
    /\ filters.searchQuery = <<"a">>
    /\ IsSome(localStorage) /\ Get(localStorage).json
    /\ Len(Get(localStorage).value.tasks) = 2
    /\ Get(localStorage).value.filters.searchQuery = <<"a">>

---------------------------------------------------------------------------
(* Properties of the month view *)

\* C26: the grid of the month of currentMonth is a whole number of weeks from a
\* Sunday to a Saturday, holds every day of the month, and has 5 or 6 rows of 7
C26_MonthGrid ==
    LET days == getCalendarDays(currentMonth)
        rows == Len(days) \div 7
    IN  /\ Len(days) = 7 * rows
        /\ \A i \in 1..Len(days) : getDay(days[i]) = (i - 1) % 7
        /\ \A d \in 1..DaysInMonth(currentMonth.month) :
              \E i \in 1..Len(days) :
                  days[i] = DayNumber([currentMonth EXCEPT !.date = d])
        /\ rows \in {5, 6}

\* C27: Next shows the month after the month shown and Previous the month before
\* it, whatever the day of currentMonth, and Previous then Next shows the month
\* shown at first
C27_MonthNavigation ==
    [][/\ handleNextMonth => currentMonth'.month = currentMonth.month + 1
       /\ handlePreviousMonth =>
            /\ currentMonth'.month = currentMonth.month - 1
            /\ setMonth(currentMonth', currentMonth'.month + 1).month
                  = currentMonth.month]_vars

=============================================================================
